---- MODULE Spec2Model ----
(***************************************************************************)
(* A model of stocks_sync.py: one run of main() creates a report task at   *)
(* the WB Seller Analytics API (three request encodings tried in order),   *)
(* polls its status, downloads the report, flattens it into one row per    *)
(* warehouse entry plus one aggregate row per item, and upserts the rows   *)
(* in batches.                                                             *)
(*                                                                         *)
(* Python values: an optional value (None, or a key missing from a dict)   *)
(* is the empty tuple, a present value v is <<v>>.  The Cyrillic literals  *)
(* of the source are transliterated: "V puti" is the in-transit prefix of  *)
(* line 279, "Vsego nahoditsya na skladah" the aggregate label of line     *)
(* 316; like the originals, both start with the same letter.               *)
(***************************************************************************)
EXTENDS Integers, Sequences, FiniteSets, TLC

VARIABLES
    pc,            \* position of the run in main()
    clock,         \* time.time(), in seconds since the run started
    strategy,      \* create_report_task: the encoding tried next (1..3)
    requests,      \* the task-creation requests issued so far, in order
    reply,         \* what the network did with the latest HTTP request
    create_log,    \* what create_report_task printed about each strategy
    task_id,       \* the task id main() holds
    urls,          \* the status and download URLs requested so far
    started,       \* wait_report_ready: time.time() at line 215
    status,        \* wait_report_ready: the status the last poll read
    elapsed,       \* wait_report_ready: time.time() - started at the last poll
    polls,         \* number of status requests issued
    sleeps,        \* number of time.sleep(POLL_INTERVAL_SEC) calls
    pending_seen,  \* number of polls that read a non-terminal status
    downloads,     \* number of download requests issued
    report_rows,   \* what download_report returned
    rows,          \* what flatten_rows returned
    flat_log,      \* what flatten_rows printed
    flattens,      \* number of flatten_rows calls
    batch_size,    \* BATCH_SIZE
    i,             \* upsert_batches: loop index
    upserts,       \* the chunks passed to upsert(), in call order
    store,         \* the destination table: a set of rows
    error,         \* the exception that ended the run, if any
    store0,        \* the destination table as it was before any run wrote
    writes,        \* the chunks the table applied, in order, with their run
    calls,         \* the table's answers to the upsert statements, in order
    other_pc,      \* a second run of main() on the same table: its position
    other_rows,    \* the second run: what its flatten_rows returned
    other_i,       \* the second run: loop index of its upsert_batches
    other_error,   \* the second run: the exception that ended it, if any
    http_retries,  \* a call of http_request: its retries argument
    http_outs,     \* the call: what the network does with attempt 1, 2, ...
    http_result,   \* the call: what it returned or raised
    http_attempt,  \* the call: the attempt its loop is at (line 87)
    http_printed,  \* the call: the diagnostic lines it printed (line 98)
    half_sec       \* the clock's half second: the time is clock + half_sec / 2

vars == <<pc, clock, strategy, requests, reply, create_log, task_id, urls,
          started, status,
          elapsed, polls, sleeps, pending_seen, downloads, report_rows, rows,
          flat_log, flattens, batch_size, i, upserts, store, error, store0,
          writes, calls, other_pc, other_rows, other_i, other_error, http_retries,
          http_outs, http_result, http_attempt, http_printed, half_sec>>

\* the second run, and the single call of http_request
other_vars == <<other_pc, other_rows, other_i, other_error>>

http_vars ==
    <<http_retries, http_outs, http_result, http_attempt, http_printed, half_sec>>

-----------------------------------------------------------------------------
(* Python values *)

None == <<>>

Some(v) == <<v>>

\* truthiness of an optional string: None and "" are falsy
Truthy(o) == o # None /\ o[1] # ""

\* `x or 0` followed by int(): None -> 0, 0 -> 0, n -> n
IntOr0(o) == IF o = None THEN 0 ELSE o[1]

\* `x or ""`
StrOrEmpty(o) == IF o = None THEN "" ELSE o[1]

Range(s) == {s[k] : k \in 1..Len(s)}

Min(a, b) == IF a < b THEN a ELSE b

-----------------------------------------------------------------------------
(* Configuration, lines 36-52 *)

REPORT_LOCALE == "ru"

POLL_INTERVAL_SEC == 2

POLL_TIMEOUT_SEC == 180

HTTP_TIMEOUT_SEC == 60

SOURCE == "seller_analytics_warehouse_remains"

IN_TRANSIT_PREFIX == "V puti"

AGGREGATE_NAME == "Vsego nahoditsya na skladah"

-----------------------------------------------------------------------------
(* Strings: str.strip() and str.startswith() *)

\* the characters str.strip() removes (those of str.isspace()), as far as a
\* string of this module can hold them: blank, tab, line feed, carriage
\* return, form feed, then U+000B, U+001C..U+001F, U+0085, U+00A0, U+1680.
\* U+2000..U+200A, U+2028, U+2029, U+202F, U+205F and U+3000 cannot be
\* written in a string here, so no string of the module holds one.
WHITESPACE ==
    {" ", "\t", "\n", "\r", "\f", "", "", "", "", "", "", " ", " "}

RECURSIVE LStrip(_)
LStrip(s) ==
    IF Len(s) > 0 /\ SubSeq(s, 1, 1) \in WHITESPACE
    THEN LStrip(SubSeq(s, 2, Len(s)))
    ELSE s

RECURSIVE RStrip(_)
RStrip(s) ==
    IF Len(s) > 0 /\ SubSeq(s, Len(s), Len(s)) \in WHITESPACE
    THEN RStrip(SubSeq(s, 1, Len(s) - 1))
    ELSE s

Strip(s) == RStrip(LStrip(s))

StartsWith(s, prefix) ==
    Len(s) >= Len(prefix) /\ SubSeq(s, 1, Len(prefix)) = prefix

-----------------------------------------------------------------------------
(* flatten_rows, lines 247-328 *)

\* lines 267-277: the fields read from one warehouse entry w
warehouse_entry(w) ==
    LET quantity    == IntOr0(w.quantity)
        in_way_to   == IntOr0(w.inWayToClient)
        in_way_from == IntOr0(w.inWayFromClient)
        q_full      == IF w.quantityFull = None
                       THEN quantity + in_way_to + in_way_from
                       ELSE IntOr0(w.quantityFull)
    IN  [warehouse_id       |-> w.warehouseId,
         warehouse_name     |-> Strip(StrOrEmpty(w.warehouseName)),
         quantity           |-> quantity,
         in_way_to_client   |-> in_way_to,
         in_way_from_client |-> in_way_from,
         quantity_full      |-> q_full]

\* a mutant of counts_in_sums: in-transit entries are summed too
counts_in_sums_all(warehouse_name) == TRUE

\* line 279: the entries whose numbers are added to the item's sums
counts_in_sums(warehouse_name) == ~StartsWith(warehouse_name, IN_TRANSIT_PREFIX)

\* lines 261-264 and 279-283: the sum of field f over the first n entries of ws
RECURSIVE sum_of(_, _, _)
sum_of(ws, f, n) ==
    IF n = 0 THEN 0
    ELSE LET e == warehouse_entry(ws[n])
         IN  sum_of(ws, f, n - 1)
               + (IF counts_in_sums(e.warehouse_name) THEN e[f] ELSE 0)

\* lines 285-304: the row of one warehouse entry
warehouse_row(row, w, now_utc) ==
    LET e == warehouse_entry(w)
    IN  [nm_id              |-> row.nmId,
         supplier_article   |-> row.vendorCode,
         barcode            |-> row.barcode,
         tech_size          |-> row.techSize,
         brand              |-> row.brand,
         subject_name       |-> row.subjectName,
         volume_l           |-> row.volume,
         warehouse_id       |-> e.warehouse_id,
         warehouse_name     |-> e.warehouse_name,
         quantity           |-> e.quantity,
         in_way_to_client   |-> e.in_way_to_client,
         in_way_from_client |-> e.in_way_from_client,
         quantity_full      |-> e.quantity_full,
         source             |-> SOURCE,
         locale             |-> REPORT_LOCALE,
         updated_utc        |-> now_utc]

\* lines 306-325: the aggregate row of one item
aggregate_row(row, ws, now_utc) ==
    LET qty_sum         == sum_of(ws, "quantity", Len(ws))
        in_way_to_sum   == sum_of(ws, "in_way_to_client", Len(ws))
        in_way_from_sum == sum_of(ws, "in_way_from_client", Len(ws))
        qty_full_sum    == sum_of(ws, "quantity_full", Len(ws))
    IN  [nm_id              |-> row.nmId,
         supplier_article   |-> row.vendorCode,
         barcode            |-> row.barcode,
         tech_size          |-> row.techSize,
         brand              |-> row.brand,
         subject_name       |-> row.subjectName,
         volume_l           |-> row.volume,
         warehouse_id       |-> None,
         warehouse_name     |-> AGGREGATE_NAME,
         quantity           |-> qty_sum,
         in_way_to_client   |-> in_way_to_sum,
         in_way_from_client |-> in_way_from_sum,
         quantity_full      |-> IF qty_full_sum # 0 THEN qty_full_sum
                                ELSE qty_sum + in_way_to_sum + in_way_from_sum,
         source             |-> SOURCE,
         locale             |-> REPORT_LOCALE,
         updated_utc        |-> now_utc]

\* lines 252-325: the rows of one item, the entries' rows then the aggregate
flatten_item(row, now_utc) ==
    LET ws == IF row.warehouses = None THEN <<>> ELSE row.warehouses[1]
    IN  [k \in 1..Len(ws) |-> warehouse_row(row, ws[k], now_utc)]
          \o <<aggregate_row(row, ws, now_utc)>>

\* lines 248-251, 328: the rows of the first n items, in input order
RECURSIVE flatten_upto(_, _, _)
flatten_upto(report, now_utc, n) ==
    IF n = 0 THEN <<>>
    ELSE flatten_upto(report, now_utc, n - 1) \o flatten_item(report[n], now_utc)

\* a flattening that reads the clock anew for every row
flatten_rows_clock_per_row(report, now_utc) ==
    LET flat == flatten_upto(report, now_utc, Len(report))
    IN  [k \in 1..Len(flat) |->
            [flat[k] EXCEPT !.updated_utc = now_utc + k - 1]]

flatten_rows(report, now_utc) == flatten_upto(report, now_utc, Len(report))

\* line 327: all that flatten_rows prints
flatten_prints(flat) == <<[msg |-> "Flattened rows", n |-> Len(flat)]>>

-----------------------------------------------------------------------------
(* http_request, lines 74-110 *)

\* A decoded response body.  shape is what resp.json() gives ("nonjson": it
\* raises); for an object, data says whether the key "data" is absent, null
\* or an object, and taskId / status are that object's fields; for a list,
\* items are its elements.
Body(shape, data, taskId, st, items) ==
    [shape |-> shape, data |-> data, taskId |-> taskId, status |-> st,
     items |-> items]

NoBody == Body("nonjson", "absent", None, None, <<>>)

\* what the network does with one attempt: a response, or no response at all
Response(status_code, body) ==
    [kind |-> "response", status_code |-> status_code, body |-> body]

TransportFailure == [kind |-> "transport", status_code |-> 0, body |-> NoBody]

\* line 100: resp.raise_for_status() raises requests.HTTPError for the
\* client and server error statuses
raises_for_status(status_code) == status_code \in 400..599

\* lines 96-99: a line is printed for every status from 400 up
prints_status(status_code) == status_code >= 400

\* line 107: time.sleep(1.5), in half seconds
RETRY_SLEEP_HALF_SEC == 3

\* lines 88-110: the loop from attempt number `attempt` on; outs[k] is what
\* the network does with attempt k
RECURSIVE http_attempts(_, _, _, _)
http_attempts(retries, outs, attempt, last_exc) ==
    IF attempt > retries
    THEN \* lines 108-110
         [raised      |-> IF last_exc THEN "HTTPError" ELSE "RuntimeError",
          attempts    |-> attempt - 1,
          status_code |-> IF last_exc THEN outs[attempt - 1].status_code ELSE 0,
          body        |-> NoBody]
    ELSE LET o == outs[attempt]
         IN  IF o.kind = "transport"
             THEN \* not a requests.HTTPError: leaves the loop uncaught
                  [raised |-> "ConnectionError", attempts |-> attempt,
                   status_code |-> 0, body |-> NoBody]
             ELSE IF raises_for_status(o.status_code)
             THEN \* raise_for_status(), caught at line 104
                  http_attempts(retries, outs, attempt + 1, TRUE)
             ELSE [raised |-> "none", attempts |-> attempt,
                   status_code |-> o.status_code, body |-> o.body]

\* a wrapper without raise_for_status: an error response is returned
http_request_returns_error_response(retries, outs) ==
    LET r == http_attempts(retries, outs, 1, FALSE)
    IN  IF r.raised = "HTTPError"
        THEN [raised |-> "none", attempts |-> r.attempts,
              status_code |-> r.status_code, body |-> outs[r.attempts].body]
        ELSE r

http_request(retries, outs) == http_attempts(retries, outs, 1, FALSE)

\* no call of http_request has ended yet
NoResult == [raised |-> "none", attempts |-> 0, status_code |-> 0, body |-> NoBody]

\* lines 142-143 and 218-219: resp.json() and data.get("data", {}).get(key)
json_field(body, key) ==
    IF body.shape = "nonjson"
    THEN [raised |-> "JSONDecodeError", value |-> None]
    ELSE IF body.shape # "object" \/ body.data = "null"
    THEN [raised |-> "AttributeError", value |-> None]
    ELSE IF body.data = "absent"
    THEN [raised |-> "none", value |-> None]
    ELSE [raised |-> "none", value |-> body[key]]

NoError == [type |-> "none", msg |-> ""]

Raise(type, msg) == [type |-> type, msg |-> msg]

-----------------------------------------------------------------------------
(* create_report_task, lines 116-208 *)

\* lines 129-141, 152-163, 174-197: the request of each strategy
Encoding(n) ==
    CASE n = 1 -> [strategy |-> "S1", query |-> TRUE,  json_body |-> "empty"]
      [] n = 2 -> [strategy |-> "S2", query |-> FALSE, json_body |-> "flat"]
      [] n = 3 -> [strategy |-> "S3", query |-> FALSE, json_body |-> "groupBy"]

\* a mutant of strategy_result: any task id is accepted, the empty one too
strategy_result_any_id(r) ==
    IF r.raised # "none" \/ json_field(r.body, "taskId").raised # "none"
    THEN [print |-> "failed", tid |-> None]
    ELSE IF json_field(r.body, "taskId").value # None
    THEN [print |-> "created", tid |-> json_field(r.body, "taskId").value]
    ELSE [print |-> "returned no taskId", tid |-> None]

\* lines 133-150 (S1), 156-172 (S2), 190-206 (S3): what one strategy makes
\* of the result r of its http_request, and the kind of line it prints
\* ("S1 failed: ...", "S1 returned no taskId, ...", "Report task created (S1)")
strategy_result(r) ==
    IF r.raised # "none" \/ json_field(r.body, "taskId").raised # "none"
    THEN [print |-> "failed", tid |-> None]
    ELSE IF Truthy(json_field(r.body, "taskId").value)
    THEN [print |-> "created", tid |-> json_field(r.body, "taskId").value]
    ELSE [print |-> "returned no taskId", tid |-> None]

\* line 208
ALL_STRATEGIES_FAILED ==
    Raise("RuntimeError",
          "Failed to create report task via all strategies (S1/S2/S3).")

-----------------------------------------------------------------------------
(* wait_report_ready, lines 210-227 *)

FAILED_STATUSES == {Some("fail"), Some("failed"), Some("error")}

\* a status URL that names one fixed task, whatever task was created
status_url_of_fixed_task(tid) == [endpoint |-> "status", task |-> "t1"]

\* line 212: f"{SELLER_ANALYTICS_BASE}/tasks/{task_id}/status"
status_url(tid) == [endpoint |-> "status", task |-> tid]

\* line 231: f"{SELLER_ANALYTICS_BASE}/tasks/{task_id}/download"
download_url(tid) == [endpoint |-> "download", task |-> tid]

\* a mutant of poll_decision: a wait without a timeout
poll_decision_no_timeout(st, since_started) ==
    IF st = Some("done") THEN "return"
    ELSE IF st \in FAILED_STATUSES THEN "failed"
    ELSE "sleep"

\* a mutant of poll_decision: any terminal status ends the wait normally
poll_decision_any_terminal_returns(st, since_started) ==
    IF st = Some("done") \/ st \in FAILED_STATUSES THEN "return"
    ELSE IF since_started > POLL_TIMEOUT_SEC THEN "timeout"
    ELSE "sleep"

\* a mutant of poll_decision: the timeout is looked at before the status
poll_decision_timeout_first(st, since_started) ==
    IF since_started > POLL_TIMEOUT_SEC THEN "timeout"
    ELSE IF st = Some("done") THEN "return"
    ELSE IF st \in FAILED_STATUSES THEN "failed"
    ELSE "sleep"

\* a mutant of poll_decision: only "pending" keeps the poller waiting
poll_decision_unknown_fails(st, since_started) ==
    IF st = Some("done") THEN "return"
    ELSE IF st # Some("pending") THEN "failed"
    ELSE IF since_started > POLL_TIMEOUT_SEC THEN "timeout"
    ELSE "sleep"

\* a mutant of poll_decision: the timeout is compared with the sleeps only
poll_decision_late_timeout(st, since_started) ==
    IF st = Some("done") THEN "return"
    ELSE IF st \in FAILED_STATUSES THEN "failed"
    ELSE IF since_started > POLL_TIMEOUT_SEC + HTTP_TIMEOUT_SEC THEN "timeout"
    ELSE "sleep"

\* lines 221-227: what one pass of the loop does with the status it read and
\* the time since `started`
poll_decision(st, since_started) ==
    IF st = Some("done") THEN "return"
    ELSE IF st \in FAILED_STATUSES THEN "failed"
    ELSE IF since_started > POLL_TIMEOUT_SEC THEN "timeout"
    ELSE "sleep"

-----------------------------------------------------------------------------
(* download_report, lines 229-241 *)

\* a mutant of download_result: any JSON value is taken for the report
download_result_any_json(body) ==
    IF body.shape = "nonjson"
    THEN [error |-> Raise("RuntimeError", "WB download returned non-json"),
          data  |-> <<>>]
    ELSE [error |-> NoError, data |-> body.items]

\* lines 234-241
download_result(body) ==
    IF body.shape = "nonjson"
    THEN [error |-> Raise("RuntimeError", "WB download returned non-json"),
          data  |-> <<>>]
    ELSE IF body.shape # "list"
    THEN [error |-> Raise("RuntimeError", "WB download: unexpected response shape"),
          data  |-> <<>>]
    ELSE [error |-> NoError, data |-> body.items]

-----------------------------------------------------------------------------
(* upsert_batches, lines 339-352, and the destination table *)

\* line 349: on_conflict="nm_id,barcode,tech_size,warehouse_name"
\* a conflict target that leaves the warehouse out
conflict_key_without_warehouse(r) == <<r.nm_id, r.barcode, r.tech_size>>

conflict_key(r) == <<r.nm_id, r.barcode, r.tech_size, r.warehouse_name>>

\* a slice that stops one row early
chunk_at_one_short(all_rows, at, size) ==
    SubSeq(all_rows, at + 1, Min(at + size - 1, Len(all_rows)))

\* line 345: rows[i : i + batch_size], i counted from 0
chunk_at(all_rows, at, size) ==
    SubSeq(all_rows, at + 1, Min(at + size, Len(all_rows)))

\* The table and the client library that talks to it are not part of the
\* script.  The table is the Current-State Table of the specification: one
\* row per conflict key, an upsert replaces the stored row of a key and
\* inserts a row otherwise, and it answers an upsert statement with the rows
\* it affected or with an error.  The client's execute() is taken to raise
\* when the table answers with an error, as the deployed client does.

\* a table that updates the columns of a stored row one by one and has left
\* updated_utc behind
RECURSIVE upsert_rows_column_mix(_, _, _)
upsert_rows_column_mix(table, chunk, n) ==
    IF n = 0 THEN table
    ELSE LET before == upsert_rows_column_mix(table, chunk, n - 1)
             old == {r \in before : conflict_key(r) = conflict_key(chunk[n])}
         IN  (before \ old)
               \cup (IF old = {} THEN {chunk[n]}
                     ELSE {[chunk[n] EXCEPT !.updated_utc = r.updated_utc] : r \in old})

\* the table's insert-or-update of the first n rows of a chunk, in order: a
\* row replaces the stored row of the same conflict key
RECURSIVE upsert_rows(_, _, _)
upsert_rows(table, chunk, n) ==
    IF n = 0 THEN table
    ELSE LET before == upsert_rows(table, chunk, n - 1)
         IN  {r \in before : conflict_key(r) # conflict_key(chunk[n])}
               \cup {chunk[n]}

\* a table that only inserts: it refuses a statement that carries a key it
\* already holds
store_insert_only(table, chunk) ==
    IF \E r \in table, k \in 1..Len(chunk) : conflict_key(r) = conflict_key(chunk[k])
    THEN [error |-> TRUE, table |-> table]
    ELSE [error |-> FALSE, table |-> upsert_rows(table, chunk, Len(chunk))]

\* the table's answer to an upsert statement it serves: no error, whatever
\* keys it holds, and the table after the insert-or-update
store_upsert(table, chunk) ==
    [error |-> FALSE, table |-> upsert_rows(table, chunk, Len(chunk))]

\* the table's answer to a statement it cannot serve (an outage, a refused
\* credential, a constraint): an error, and the table as it was
store_fault(table) == [error |-> TRUE, table |-> table]

\* a client that hands the table's error back in its result
execute_returns_error(answer) == [raised |-> "none", answer |-> answer]

\* .execute() of lines 346-350: the client raises when the table answers
\* with an error, and returns the answer otherwise
execute(answer) ==
    [raised |-> IF answer.error THEN "APIError" ELSE "none", answer |-> answer]

-----------------------------------------------------------------------------
(* Bounds and inputs *)

\* the largest BATCH_SIZE tried
MaxBatch == 2

\* the largest quantity of a warehouse entry
MaxQty == 1

\* the longest warehouse list of an item
MaxWh == 2

\* The clock is read at lines 215, 225 and 249 only, so time is let pass
\* where it shows between two readings: in the sleep of line 227 and in the
\* status request, which returns at once or after the request timeout.
Latencies == {0, HTTP_TIMEOUT_SEC}

TaskIds == {"t1", "t2"}

\* replies to a task-creation request
CreateReplies ==
    {TransportFailure, Response(400, NoBody), Response(200, NoBody),
     Response(200, Body("object", "absent", None, None, <<>>)),
     Response(200, Body("object", "null", None, None, <<>>)),
     Response(200, Body("object", "object", None, None, <<>>)),
     Response(200, Body("object", "object", Some(""), None, <<>>))}
    \cup {Response(c, Body("object", "object", Some(t), None, <<>>)) :
            c \in {200, 600}, t \in TaskIds}

\* the statuses the status endpoint reports; None: no "status" key
Statuses ==
    {None, Some("pending"), Some("new"), Some("done"), Some("fail"),
     Some("failed"), Some("error")}

\* replies to a status request
StatusReplies ==
    {TransportFailure, Response(500, NoBody), Response(200, NoBody),
     Response(200, Body("object", "absent", None, None, <<>>)),
     Response(600, Body("object", "object", None, Some("done"), <<>>))}
    \cup {Response(200, Body("object", "object", None, st, <<>>)) :
            st \in Statuses}

\* one warehouse entry of the report
Wh(name, quantity, to, from, full) ==
    [warehouseId |-> IF name = None THEN None ELSE Some(Len(name[1])),
     warehouseName |-> name, quantity |-> quantity, inWayToClient |-> to,
     inWayFromClient |-> from, quantityFull |-> full]

\* one item of the report
Item(nmId, barcode, warehouses) ==
    [brand |-> Some("brand"), subjectName |-> Some("subject"),
     vendorCode |-> Some("art"), nmId |-> nmId, barcode |-> barcode,
     techSize |-> Some("0"), volume |-> Some(1), warehouses |-> warehouses]

WarehouseNames ==
    {None, Some("Koledino"), Some("Tula "), Some("V puti do poluchateley"),
     Some(" \tV puti vozvraty na sklad WB \n"), Some(AGGREGATE_NAME)}

\* every name with no quantity or one of 1..MaxQty and nothing else, and
\* three entries that carry in-transit numbers and a quantityFull
WarehouseEntries ==
    {Wh(name, q, None, None, None) :
        name \in WarehouseNames, q \in {None} \cup {Some(n) : n \in 1..MaxQty}}
    \cup {Wh(Some("Koledino"), Some(1), Some(1), Some(2), None),
          Wh(Some("V puti do poluchateley"), Some(2), None, Some(1), Some(7)),
          Wh(Some(AGGREGATE_NAME), Some(0), Some(1), None, Some(0))}

WarehouseLists(n) == UNION {[1..k -> WarehouseEntries] : k \in 0..n}

ItemKeys == {<<Some(1), Some("b1")>>, <<None, Some("b1")>>, <<Some(2), None>>}

Items(n) ==
    {Item(k[1], k[2], ws) :
        k \in ItemKeys, ws \in {None} \cup {Some(l) : l \in WarehouseLists(n)}}

\* reports of one item with up to MaxWh entries, or of two with up to one
Reports ==
    {<<>>} \cup {<<a>> : a \in Items(MaxWh)}
           \cup {<<a, b>> : a \in Items(1), b \in Items(1)}

\* the reports a run of main() downloads
DownloadedReports ==
    {<<>>,
     <<Item(Some(1), Some("b1"),
            Some(<<Wh(Some("Koledino"), Some(1), None, None, None),
                   Wh(Some("V puti do poluchateley"), Some(1), None, None, None)>>))>>,
     <<Item(None, Some("b1"),
            Some(<<Wh(None, Some(1), None, None, None)>>)),
       Item(Some(2), None, None)>>}

\* replies to a download request
DownloadReplies ==
    {TransportFailure, Response(500, NoBody), Response(200, NoBody),
     Response(200, Body("null", "absent", None, None, <<>>)),
     Response(200, Body("scalar", "absent", None, None, <<>>)),
     Response(200, Body("object", "absent", None, None, <<>>))}
    \cup {Response(200, Body("list", "absent", None, None, r)) :
            r \in DownloadedReports}

-----------------------------------------------------------------------------
(* main, lines 358-377 *)

Init ==
    /\ pc = "create"
    /\ clock = 0
    /\ strategy = 1
    /\ requests = <<>>
    /\ reply = TransportFailure
    /\ create_log = <<>>
    /\ task_id = None
    /\ urls = {}
    /\ started = 0
    /\ status = None
    /\ elapsed = 0
    /\ polls = 0
    /\ sleeps = 0
    /\ pending_seen = 0
    /\ downloads = 0
    /\ report_rows = <<>>
    /\ rows = <<>>
    /\ flat_log = <<>>
    /\ flattens = 0
    /\ batch_size \in 1..MaxBatch
    /\ i = 0
    /\ upserts = <<>>
    /\ store = {}
    /\ error = NoError
    /\ store0 = {}
    /\ writes = <<>>
    /\ calls = <<>>
    /\ other_pc = "absent"
    /\ other_rows = <<>>
    /\ other_i = 0
    /\ other_error = NoError
    /\ http_retries = 1
    /\ http_outs = <<>>
    /\ http_result = NoResult
    /\ http_attempt = 1
    /\ http_printed = 0
    /\ half_sec = 0

\* one strategy of create_report_task: its request, and what lines 142-150
\* make of the reply.  A task id returns to main(), which enters
\* wait_report_ready (line 215: started = time.time()).
CreateAttempt ==
    /\ pc = "create"
    /\ \E o \in CreateReplies :
         LET res == strategy_result(http_request(1, <<o>>))
         IN  /\ reply' = o
             /\ requests' = Append(requests, Encoding(strategy))
             /\ create_log' = Append(create_log,
                    [strategy |-> Encoding(strategy).strategy,
                     print |-> res.print, tid |-> res.tid])
             /\ IF res.print = "created"
                THEN /\ task_id' = res.tid
                     /\ pc' = "poll"
                     /\ started' = clock
                     /\ UNCHANGED <<strategy, error>>
                ELSE IF strategy < 3
                THEN /\ strategy' = strategy + 1
                     /\ UNCHANGED <<pc, task_id, started, error>>
                ELSE /\ pc' = "fatal"
                     /\ error' = ALL_STRATEGIES_FAILED
                     /\ UNCHANGED <<strategy, task_id, started>>
    /\ UNCHANGED <<clock, urls, status, elapsed, polls, sleeps, pending_seen,
                   downloads, report_rows, rows, flat_log, flattens,
                   batch_size, i, upserts, store>>
    /\ UNCHANGED <<store0, writes, calls, other_vars, http_vars>>

\* one pass of the loop of wait_report_ready up to the sleep, lines 217-226,
\* its request to the status URL of line 212
Poll ==
    /\ pc = "poll"
    /\ \E o \in StatusReplies, d \in Latencies :
         LET r   == http_request(1, <<o>>)
             f   == json_field(r.body, "status")
             now == clock + d
         IN  /\ reply' = o
             /\ urls' = urls \cup {status_url(task_id[1])}
             /\ clock' = now
             /\ polls' = polls + 1
             /\ IF r.raised # "none"
                THEN /\ pc' = "fatal"
                     /\ error' = Raise(r.raised, "status request failed")
                     /\ UNCHANGED <<status, elapsed, pending_seen>>
                ELSE IF f.raised # "none"
                THEN /\ pc' = "fatal"
                     /\ error' = Raise(f.raised, "status response unreadable")
                     /\ UNCHANGED <<status, elapsed, pending_seen>>
                ELSE /\ status' = f.value
                     /\ elapsed' = now - started
                     /\ LET what == poll_decision(f.value, now - started)
                        IN  /\ pending_seen' =
                                 IF what \in {"timeout", "sleep"}
                                 THEN pending_seen + 1 ELSE pending_seen
                            /\ pc' = CASE what = "return"  -> "download"
                                       [] what = "sleep"   -> "sleep"
                                       [] OTHER            -> "fatal"
                            /\ error' =
                                 CASE what = "failed" ->
                                        Raise("RuntimeError", "WB report task failed")
                                   [] what = "timeout" ->
                                        Raise("TimeoutError",
                                              "Timed out waiting for report to be ready")
                                   [] OTHER -> error
    /\ UNCHANGED <<strategy, requests, create_log, task_id, started, sleeps,
                   downloads, report_rows, rows, flat_log, flattens,
                   batch_size, i, upserts, store>>
    /\ UNCHANGED <<store0, writes, calls, other_vars, http_vars>>

\* line 227: time.sleep(POLL_INTERVAL_SEC)
Sleep ==
    /\ pc = "sleep"
    /\ clock' = clock + POLL_INTERVAL_SEC
    /\ sleeps' = sleeps + 1
    /\ pc' = "poll"
    /\ UNCHANGED <<strategy, requests, reply, create_log, task_id, urls, started,
                   status, elapsed, polls, pending_seen, downloads,
                   report_rows, rows, flat_log, flattens, batch_size, i,
                   upserts, store, error>>
    /\ UNCHANGED <<store0, writes, calls, other_vars, http_vars>>

\* download_report, lines 229-241, its request to the download URL of line 231
Download ==
    /\ pc = "download"
    /\ \E o \in DownloadReplies :
         LET r   == http_request(1, <<o>>)
             res == download_result(r.body)
         IN  /\ reply' = o
             /\ urls' = urls \cup {download_url(task_id[1])}
             /\ downloads' = downloads + 1
             /\ IF r.raised # "none"
                THEN /\ pc' = "fatal"
                     /\ error' = Raise(r.raised, "download request failed")
                     /\ UNCHANGED report_rows
                ELSE IF res.error # NoError
                THEN /\ pc' = "fatal"
                     /\ error' = res.error
                     /\ UNCHANGED report_rows
                ELSE /\ pc' = "flatten"
                     /\ report_rows' = res.data
                     /\ UNCHANGED error
    /\ UNCHANGED <<clock, strategy, requests, create_log, task_id, started,
                   status, elapsed, polls, sleeps, pending_seen, rows,
                   flat_log, flattens, batch_size, i, upserts, store>>
    /\ UNCHANGED <<store0, writes, calls, other_vars, http_vars>>

\* flatten_rows, lines 247-328, called at line 372; line 249 reads the clock
Flatten ==
    /\ pc = "flatten"
    /\ rows' = flatten_rows(report_rows, clock)
    /\ flat_log' = flatten_prints(rows')
    /\ flattens' = flattens + 1
    /\ i' = 0
    /\ pc' = "upsert"
    /\ UNCHANGED <<clock, strategy, requests, reply, create_log, task_id, urls,
                   started, status, elapsed, polls, sleeps, pending_seen,
                   downloads, report_rows, batch_size, upserts, store, error>>
    /\ UNCHANGED <<store0, writes, calls, other_vars, http_vars>>

\* one pass of the loop of upsert_batches, lines 344-352: the statement goes
\* to the table, execute() returns its answer or raises, and nothing around
\* the call catches the exception
UpsertBatch ==
    /\ pc = "upsert"
    /\ i < Len(rows)
    /\ LET chunk == chunk_at(rows, i, batch_size)
       IN  /\ upserts' = Append(upserts, chunk)
           /\ \E fault \in BOOLEAN :
                 LET answer == IF fault THEN store_fault(store)
                               ELSE store_upsert(store, chunk)
                     res    == execute(answer)
                 IN  /\ store' = answer.table
                     /\ calls' = Append(calls, [run |-> 1, fault |-> fault,
                                                error |-> answer.error])
                     /\ writes' = IF answer.error THEN writes
                                  ELSE Append(writes, [run |-> 1, chunk |-> chunk])
                     /\ IF res.raised # "none"
                        THEN /\ pc' = "fatal"
                             /\ error' = Raise(res.raised, "store error")
                             /\ UNCHANGED i
                        ELSE /\ i' = i + batch_size
                             /\ UNCHANGED <<pc, error>>
    /\ UNCHANGED <<clock, strategy, requests, reply, create_log, task_id, urls,
                   started, status, elapsed, polls, sleeps, pending_seen,
                   downloads, report_rows, rows, flat_log, flattens,
                   batch_size>>
    /\ UNCHANGED <<store0, other_vars, http_vars>>

\* lines 341-343 (nothing to upsert) or the end of the loop, then line 377
Finish ==
    /\ pc = "upsert"
    /\ i >= Len(rows)
    /\ pc' = "done"
    /\ UNCHANGED <<clock, strategy, requests, reply, create_log, task_id, urls,
                   started, status, elapsed, polls, sleeps, pending_seen,
                   downloads, report_rows, rows, flat_log, flattens,
                   batch_size, i, upserts, store, error>>
    /\ UNCHANGED <<store0, writes, calls, other_vars, http_vars>>

Next ==
    \/ CreateAttempt
    \/ Poll
    \/ Sleep
    \/ Download
    \/ Flatten
    \/ UpsertBatch
    \/ Finish

Spec == Init /\ [][Next]_vars

-----------------------------------------------------------------------------
(* flatten_rows alone, on every report of the bounded input space *)

InitFlatten ==
    /\ pc = "flatten"
    /\ clock = 0
    /\ strategy = 1
    /\ requests = <<Encoding(1)>>
    /\ create_log = <<[strategy |-> "S1", print |-> "created", tid |-> Some("t1")]>>
    /\ task_id = Some("t1")
    /\ urls = {status_url("t1"), download_url("t1")}
    /\ started = 0
    /\ status = Some("done")
    /\ elapsed = 0
    /\ polls = 1
    /\ sleeps = 0
    /\ pending_seen = 0
    /\ downloads = 1
    /\ report_rows \in Reports
    /\ reply = Response(200, Body("list", "absent", None, None, report_rows))
    /\ rows = <<>>
    /\ flat_log = <<>>
    /\ flattens = 0
    /\ batch_size = 1
    /\ i = 0
    /\ upserts = <<>>
    /\ store = {}
    /\ error = NoError
    /\ store0 = {}
    /\ writes = <<>>
    /\ calls = <<>>
    /\ other_pc = "absent"
    /\ other_rows = <<>>
    /\ other_i = 0
    /\ other_error = NoError
    /\ http_retries = 1
    /\ http_outs = <<>>
    /\ http_result = NoResult
    /\ http_attempt = 1
    /\ http_printed = 0
    /\ half_sec = 0

NextFlatten == Flatten

SpecFlatten == InitFlatten /\ [][NextFlatten]_vars

-----------------------------------------------------------------------------
(* What the network said, read off the reply itself *)

\* the reply is a response that carries a non-empty task id
YieldsTaskId(o) ==
    /\ o.kind = "response" /\ o.status_code \notin 400..599
    /\ o.body.shape = "object" /\ o.body.data = "object"
    /\ o.body.taskId # None /\ o.body.taskId # Some("")

\* the reply is a response from which a status (or its absence) can be read
ReadsStatus(o) ==
    /\ o.kind = "response" /\ o.status_code \notin 400..599
    /\ o.body.shape = "object" /\ o.body.data # "null"

StatusOf(o) == IF o.body.data = "absent" THEN None ELSE o.body.status

TerminalStatuses == {Some("done"), Some("fail"), Some("failed"), Some("error")}

\* the reply is a response whose decoded payload is a list
IsList(o) ==
    o.kind = "response" /\ o.status_code \notin 400..599
      /\ o.body.shape = "list"

IsPrefix(s, t) == Len(s) <= Len(t) /\ s = SubSeq(t, 1, Len(s))

\* text t occurs in text s
Contains(s, t) ==
    \E k \in 1..(Len(s) - Len(t) + 1) : SubSeq(s, k, k + Len(t) - 1) = t

-----------------------------------------------------------------------------
(* create_report_task *)

\* C1: whatever the three encodings answer, the requests issued are S1, S2,
\* S3 in that order, at most one each; a request whose reply carries a
\* non-empty task id makes create_report_task return that id, any other
\* reply returns no id, and once an id is returned no further creation
\* request is issued.  Since every earlier reply returned no id, the id
\* returned is that of the lowest-numbered encoding that yields one.
C1_FirstYieldingEncodingWins ==
    /\ [](IsPrefix(requests, <<Encoding(1), Encoding(2), Encoding(3)>>))
    /\ [][/\ requests' # requests =>
                /\ pc = "create"
                /\ requests' = Append(requests, Encoding(Len(requests) + 1))
                /\ IF YieldsTaskId(reply')
                   THEN task_id' = reply'.body.taskId /\ pc' = "poll"
                   ELSE task_id' = None /\ pc' \in {"create", "fatal"}
          /\ task_id # None => requests' = requests /\ task_id' = task_id]_vars

\* C1 witness: S1 and S2 yielded no id, S3 did, and its id was returned
C1_Witness_ThirdEncodingAccepted ==
    /\ pc = "poll" /\ polls = 0
    /\ Len(requests) = 3
    /\ create_log[1].print = "failed"
    /\ create_log[2].print = "returned no taskId"
    /\ YieldsTaskId(reply)
    /\ task_id = reply.body.taskId

\* C2 as claimed: when no encoding yields an id, the error the run ends in
\* names the outcome of each of the three strategies.
C2_ErrorEnumeratesOutcomes ==
    (polls = 0 /\ Len(requests) = 3 /\ ~YieldsTaskId(reply)) =>
        /\ pc = "fatal" /\ task_id = None
        /\ \A k \in 1..3 :
              Contains(error.msg, create_log[k].strategy \o " " \o create_log[k].print)

\* C2 as amended: when no encoding yields an id, create_report_task returns
\* no task id and the run ends in the one fixed error of line 208, which
\* names the strategies but not their outcomes; the outcome of each strategy
\* (failed, or returned no taskId) was printed, one line per strategy in
\* order, before the error.
C2_AllFailedFixedError ==
    (polls = 0 /\ Len(requests) = 3 /\ ~YieldsTaskId(reply)) =>
        /\ pc = "fatal" /\ task_id = None
        /\ error = ALL_STRATEGIES_FAILED
        /\ Len(create_log) = 3
        /\ \A k \in 1..3 :
              /\ create_log[k].strategy = Encoding(k).strategy
              /\ create_log[k].print \in {"failed", "returned no taskId"}

\* C2 witness: three requests, none yielded an id, the run has failed
C2_Witness_AllThreeFailed ==
    /\ pc = "fatal" /\ polls = 0 /\ Len(requests) = 3
    /\ ~YieldsTaskId(reply)
    /\ create_log[1].print = "returned no taskId"
    /\ create_log[3].print = "failed"

-----------------------------------------------------------------------------
(* wait_report_ready *)

\* C3: a poll that reads "done" makes wait_report_ready return without an
\* error, a poll that reads "fail", "failed" or "error" makes it raise the
\* report-failed error, and after either there is no further poll and no
\* further sleep (so the poll was the first to read such a status).
C3_TerminalStatusEndsPolling ==
    /\ [][(polls' = polls + 1 /\ ReadsStatus(reply')) =>
             /\ StatusOf(reply') = Some("done") =>
                   pc' = "download" /\ error' = NoError
             /\ StatusOf(reply') \in FAILED_STATUSES =>
                   /\ pc' = "fatal"
                   /\ error' = Raise("RuntimeError", "WB report task failed")]_vars
    /\ [][(status \in TerminalStatuses) =>
             polls' = polls /\ sleeps' = sleeps /\ status' = status]_vars
    /\ [](status \in TerminalStatuses => pc \notin {"poll", "sleep"})

\* C3 witness: the third poll read "done" and the poller returned
C3_Witness_DoneReturned ==
    /\ pc = "download" /\ status = Some("done") /\ polls = 3 /\ sleeps = 2
    /\ error = NoError

\* C4: a poll that reads a status other than done/fail/failed/error (an
\* unknown string or none at all) while the time since the first poll is
\* within the budget is followed by a sleep, raising nothing; so when "done"
\* is read after k such polls, wait_report_ready returns after exactly k+1
\* polls and k sleeps.
C4_PendingThenDone ==
    /\ [][(polls' = polls + 1 /\ ReadsStatus(reply')) =>
             /\ (/\ StatusOf(reply') \notin TerminalStatuses
                 /\ clock' - started <= POLL_TIMEOUT_SEC) =>
                   /\ pc' = "sleep" /\ error' = NoError
                   /\ pending_seen' = pending_seen + 1
             /\ StatusOf(reply') = Some("done") =>
                   /\ pc' = "download" /\ error' = NoError
                   /\ pending_seen' = pending_seen
                   /\ polls' = pending_seen + 1
                   /\ sleeps' = pending_seen]_vars
    /\ [][pc = "sleep" => pc' = "poll" /\ sleeps' = sleeps + 1]_vars

\* C4 witness: an unknown status, a missing status, then "done"
C4_Witness_TwoPendingThenDone ==
    /\ pc = "download" /\ status = Some("done") /\ error = NoError
    /\ pending_seen = 2 /\ polls = 3 /\ sleeps = 2

\* C5 as claimed: a poll at which the time since the first poll exceeds the
\* budget ends in the timeout error whatever status it read.
C5_TimeoutWhateverStatus ==
    elapsed > POLL_TIMEOUT_SEC => pc = "fatal" /\ error.type = "TimeoutError"

\* C5 as amended: a poll at which the time since the first poll exceeds the
\* budget ends in the timeout error when the status it read is none of done,
\* fail, failed, error; if it read "done" the poller returns successfully and
\* if it read fail/failed/error it raises the report-failed error, as they do
\* within the budget.
C5_TimeoutUnlessTerminal ==
    elapsed > POLL_TIMEOUT_SEC =>
        /\ status \notin TerminalStatuses =>
              pc = "fatal" /\ error.type = "TimeoutError"
        /\ status = Some("done") =>
              /\ pc \notin {"poll", "sleep"}
              /\ error.type # "TimeoutError"
              /\ downloads = 0 => pc = "download" /\ error = NoError
        /\ status \in FAILED_STATUSES =>
              /\ pc = "fatal"
              /\ error = Raise("RuntimeError", "WB report task failed")

\* C5 witness: a poll past the budget read a non-terminal status and the
\* poller timed out
C5_Witness_TimedOut ==
    /\ elapsed > POLL_TIMEOUT_SEC /\ status = Some("pending")
    /\ pc = "fatal" /\ error.type = "TimeoutError"

-----------------------------------------------------------------------------
(* download_report *)

\* C6: download_report returns the decoded payload exactly when it is a
\* list; a failed request, a body that is not JSON and any other decoded
\* shape end the run in an error, and such a run neither flattens nor
\* upserts.
C6_OnlyListsAreReturned ==
    /\ [][downloads' = downloads + 1 =>
             IF IsList(reply')
             THEN /\ pc' = "flatten" /\ error' = NoError
                  /\ report_rows' = reply'.body.items
             ELSE /\ pc' = "fatal" /\ error' # NoError
                  /\ report_rows' = report_rows]_vars
    /\ []((flattens > 0 \/ upserts # <<>>) =>
             downloads = 1 /\ IsList(reply) /\ report_rows = reply.body.items)
    /\ []((downloads = 1 /\ ~IsList(reply)) =>
             pc = "fatal" /\ flattens = 0 /\ upserts = <<>> /\ rows = <<>>)

\* C6 witness: the download decoded to an object and the run stopped there
C6_Witness_ObjectRejected ==
    /\ downloads = 1 /\ reply.status_code = 200 /\ reply.body.shape = "object"
    /\ pc = "fatal" /\ flattens = 0 /\ upserts = <<>>

-----------------------------------------------------------------------------
(* flatten_rows *)

EntriesOf(item) == IF item.warehouses = None THEN <<>> ELSE item.warehouses[1]

\* the number of rows that precede the rows of item j
RECURSIVE RowsBefore(_, _)
RowsBefore(report, j) ==
    IF j = 1 THEN 0
    ELSE RowsBefore(report, j - 1) + Len(EntriesOf(report[j - 1])) + 1

\* the warehouse name of an entry, without surrounding blanks
NameOf(w) == Strip(IF w.warehouseName = None THEN "" ELSE w.warehouseName[1])

QuantityOf(w) == IF w.quantity = None THEN 0 ELSE w.quantity[1]

\* the entry's name, as the report gives it, starts with the in-transit prefix
InTransitAsGiven(w) ==
    w.warehouseName # None /\ StartsWith(w.warehouseName[1], IN_TRANSIT_PREFIX)

InTransit(w) == StartsWith(NameOf(w), IN_TRANSIT_PREFIX)

\* the entry is the vendor's rollup over the real warehouses
Rollup(w) == NameOf(w) = AGGREGATE_NAME

\* the sum of the quantities of the entries of ws at the indices in S
RECURSIVE QuantitySum(_, _)
QuantitySum(ws, S) ==
    IF S = {} THEN 0
    ELSE LET k == CHOOSE k \in S : TRUE
         IN  QuantityOf(ws[k]) + QuantitySum(ws, S \ {k})

\* the aggregate row flatten_rows emitted for item j
AggregateOf(j) ==
    rows[RowsBefore(report_rows, j) + Len(EntriesOf(report_rows[j])) + 1]

\* C7: flatten_rows emits one row per warehouse entry, in order, and then the
\* item's aggregate row; the row of an entry whose name starts with the
\* in-transit prefix carries that entry's name and quantity, and the
\* aggregate row's quantity is the sum over the entries that are not in
\* transit, so it leaves every in-transit quantity out.
C7_InTransitLeftOutButEmitted ==
    flattens = 1 =>
        /\ Len(rows) = RowsBefore(report_rows, Len(report_rows) + 1)
        /\ \A j \in 1..Len(report_rows) :
              LET ws == EntriesOf(report_rows[j])
              IN  /\ AggregateOf(j).warehouse_name = AGGREGATE_NAME
                  /\ AggregateOf(j).nm_id = report_rows[j].nmId
                  /\ \A k \in 1..Len(ws) :
                        InTransitAsGiven(ws[k]) =>
                          /\ InTransit(ws[k])
                          /\ rows[RowsBefore(report_rows, j) + k].warehouse_name
                               = NameOf(ws[k])
                          /\ rows[RowsBefore(report_rows, j) + k].quantity
                               = QuantityOf(ws[k])
                          /\ rows[RowsBefore(report_rows, j) + k].nm_id
                               = report_rows[j].nmId
                          /\ AggregateOf(j).quantity
                               = QuantitySum(ws, {m \in 1..Len(ws) : ~InTransit(ws[m])})

\* C7 witness: an item with one unit in a real warehouse and one in transit:
\* three rows, the in-transit row with its unit, the aggregate with one unit
C7_Witness_OneRealOneInTransit ==
    /\ flattens = 1 /\ Len(report_rows) = 1 /\ Len(rows) = 3
    /\ rows[1].warehouse_name = "Koledino" /\ rows[1].quantity = 1
    /\ InTransitAsGiven(EntriesOf(report_rows[1])[2])
    /\ rows[2].warehouse_name = "V puti do poluchateley" /\ rows[2].quantity = 1
    /\ rows[3].warehouse_name = AGGREGATE_NAME /\ rows[3].quantity = 1

\* C8 as claimed: for an item whose warehouse list has a vendor rollup entry,
\* the aggregate quantity is the sum over the real warehouses only, neither
\* the in-transit entries nor the rollup entry.
C8_RollupLeftOutOfSums ==
    flattens = 1 =>
        \A j \in 1..Len(report_rows) :
            LET ws == EntriesOf(report_rows[j])
            IN  (\E k \in 1..Len(ws) : Rollup(ws[k])) =>
                   AggregateOf(j).quantity
                     = QuantitySum(ws, {m \in 1..Len(ws) :
                                          ~InTransit(ws[m]) /\ ~Rollup(ws[m])})

\* C9 as claimed: for an item with a vendor rollup entry whose quantity
\* differs from the sum over the real warehouses, flatten_rows records a
\* warning that names the item id.
C9_MismatchWarningRecorded ==
    flattens = 1 =>
        \A j \in 1..Len(report_rows) :
            LET ws == EntriesOf(report_rows[j])
            IN  \A k \in 1..Len(ws) :
                  (/\ Rollup(ws[k])
                   /\ report_rows[j].nmId # None
                   /\ QuantityOf(ws[k])
                        # QuantitySum(ws, {m \in 1..Len(ws) :
                                            ~InTransit(ws[m]) /\ ~Rollup(ws[m])})) =>
                     \E e \in Range(flat_log) :
                         e.msg # "Flattened rows" /\ e.n = report_rows[j].nmId[1]

-----------------------------------------------------------------------------
(* the rows sent to the store *)

\* C10 as claimed: no row with a null item id, a null barcode or an empty
\* warehouse name is passed to the store's upsert.
C10_NoRowWithoutKeySent ==
    \A c \in 1..Len(upserts) :
        \A k \in 1..Len(upserts[c]) :
            /\ upserts[c][k].nm_id # None
            /\ upserts[c][k].barcode # None
            /\ upserts[c][k].warehouse_name # ""


-----------------------------------------------------------------------------
(* upsert_batches on a table that another run may be writing to *)

\* reports whose flattening gives 0, 1, 2, 3, 3 and 5 rows; the fifth lists
\* an entry that carries the label of the aggregate row
UpsertReports ==
    {<<>>,
     <<Item(Some(1), Some("b1"), None)>>,
     <<Item(Some(1), Some("b1"),
            Some(<<Wh(Some("Koledino"), Some(1), None, None, None)>>))>>,
     <<Item(Some(1), Some("b1"),
            Some(<<Wh(Some("Koledino"), Some(1), None, None, None),
                   Wh(Some("Tula "), Some(1), None, None, None)>>))>>,
     <<Item(Some(1), Some("b1"),
            Some(<<Wh(Some("Koledino"), Some(1), None, None, None),
                   Wh(Some(AGGREGATE_NAME), Some(1), None, None, None)>>))>>,
     <<Item(Some(1), Some("b1"),
            Some(<<Wh(Some("Koledino"), Some(1), None, None, None)>>)),
       Item(Some(2), None,
            Some(<<Wh(Some("Koledino"), None, None, None, None),
                   Wh(Some("Tula "), Some(1), None, None, None)>>))>>}

\* what the second run downloaded
OtherReports ==
    {<<Item(Some(1), Some("b1"),
            Some(<<Wh(Some("Koledino"), None, Some(1), None, None)>>))>>,
     <<Item(Some(1), Some("b1"),
            Some(<<Wh(Some("Koledino"), Some(1), None, None, None),
                   Wh(Some("Tula "), Some(1), None, None, None)>>))>>,
     <<Item(Some(1), Some("b1"),
            Some(<<Wh(Some("Koledino"), Some(1), None, None, None),
                   Wh(Some(AGGREGATE_NAME), Some(1), None, None, None)>>))>>}

\* line 249 of an earlier run, of the second run and of this run
EarlierClock == 0

OtherClocks == {1, 2}

UpsertClock == 2

\* the table before the runs: empty, or as an earlier run left it
StoredTables ==
    {{}} \cup
    {LET f == flatten_rows(<<Item(Some(1), Some("b1"),
                 Some(<<Wh(Some("Koledino"), Some(1), Some(1), None, None)>>))>>,
                 EarlierClock)
     IN  upsert_rows({}, f, Len(f))}

\* main() has flattened a report (line 373) and enters upsert_batches; a
\* second run of the script may be at the same place, on the same table
InitUpsert ==
    /\ pc = "upsert"
    /\ clock = UpsertClock
    /\ strategy = 1
    /\ requests = <<Encoding(1)>>
    /\ create_log = <<[strategy |-> "S1", print |-> "created", tid |-> Some("t1")]>>
    /\ task_id = Some("t1")
    /\ urls = {status_url("t1"), download_url("t1")}
    /\ started = 0
    /\ status = Some("done")
    /\ elapsed = 0
    /\ polls = 1
    /\ sleeps = 0
    /\ pending_seen = 0
    /\ downloads = 1
    /\ report_rows \in UpsertReports
    /\ reply = Response(200, Body("list", "absent", None, None, report_rows))
    /\ rows = flatten_rows(report_rows, clock)
    /\ flat_log = flatten_prints(rows)
    /\ flattens = 1
    /\ batch_size \in 1..MaxBatch
    /\ i = 0
    /\ upserts = <<>>
    /\ store0 \in StoredTables
    /\ store = store0
    /\ error = NoError
    /\ writes = <<>>
    /\ calls = <<>>
    /\ \/ /\ other_pc = "absent"
          /\ other_rows = <<>>
       \/ /\ other_pc = "upsert"
          /\ other_rows \in {flatten_rows(r, t) : r \in OtherReports, t \in OtherClocks}
    /\ other_i = 0
    /\ other_error = NoError
    /\ http_retries = 1
    /\ http_outs = <<>>
    /\ http_result = NoResult
    /\ http_attempt = 1
    /\ http_printed = 0
    /\ half_sec = 0

\* the second run's pass of the loop of upsert_batches, lines 344-352
OtherUpsertBatch ==
    /\ other_pc = "upsert"
    /\ other_i < Len(other_rows)
    /\ LET chunk == chunk_at(other_rows, other_i, batch_size)
       IN  \E fault \in BOOLEAN :
             LET answer == IF fault THEN store_fault(store)
                           ELSE store_upsert(store, chunk)
                 res    == execute(answer)
             IN  /\ store' = answer.table
                 /\ calls' = Append(calls, [run |-> 2, fault |-> fault,
                                            error |-> answer.error])
                 /\ writes' = IF answer.error THEN writes
                              ELSE Append(writes, [run |-> 2, chunk |-> chunk])
                 /\ IF res.raised # "none"
                    THEN /\ other_pc' = "fatal"
                         /\ other_error' = Raise(res.raised, "store error")
                         /\ UNCHANGED other_i
                    ELSE /\ other_i' = other_i + batch_size
                         /\ UNCHANGED <<other_pc, other_error>>
    /\ UNCHANGED <<pc, clock, strategy, requests, reply, create_log, task_id, urls,
                   started, status, elapsed, polls, sleeps, pending_seen,
                   downloads, report_rows, rows, flat_log, flattens,
                   batch_size, i, upserts, error, store0, other_rows>>
    /\ UNCHANGED http_vars

\* the second run: lines 341-343 or the end of the loop, then line 377
OtherFinish ==
    /\ other_pc = "upsert"
    /\ other_i >= Len(other_rows)
    /\ other_pc' = "done"
    /\ UNCHANGED <<pc, clock, strategy, requests, reply, create_log, task_id, urls,
                   started, status, elapsed, polls, sleeps, pending_seen,
                   downloads, report_rows, rows, flat_log, flattens,
                   batch_size, i, upserts, store, error, store0, writes, calls,
                   other_rows, other_i, other_error>>
    /\ UNCHANGED http_vars

NextUpsert ==
    \/ UpsertBatch
    \/ Finish
    \/ OtherUpsertBatch
    \/ OtherFinish

SpecUpsert == InitUpsert /\ [][NextUpsert]_vars

\* -- the vocabulary of the claims about upsert_batches

\* m / n rounded up
CeilDiv(m, n) == (m + n - 1) \div n

\* the k-th of the batches of n that a list divides into
BatchOf(all_rows, n, k) ==
    [j \in 1..Min(n, Len(all_rows) - (k - 1) * n) |-> all_rows[(k - 1) * n + j]]

\* the first n of a sequence of lists, joined
RECURSIVE Concat(_, _)
Concat(lists, n) ==
    IF n = 0 THEN <<>> ELSE Concat(lists, n - 1) \o lists[n]

\* the chunks the table applied for one run, in order
RECURSIVE WritesOf(_, _, _)
WritesOf(run, log, n) ==
    IF n = 0 THEN <<>>
    ELSE IF log[n].run = run
         THEN Append(WritesOf(run, log, n - 1), log[n].chunk)
         ELSE WritesOf(run, log, n - 1)

\* C11: a call of upsert_batches that met no store error has issued
\* ceil(M / N) upsert calls for its M rows and batch size N (none for an empty
\* list), each batch but the last has N rows, the batches joined in call
\* order are the list, and the table applied each of them.
C11_BatchesPartitionRows ==
    pc = "done" =>
        /\ Len(upserts) = CeilDiv(Len(rows), batch_size)
        /\ \A k \in 1..(Len(upserts) - 1) : Len(upserts[k]) = batch_size
        /\ \A k \in 1..Len(upserts) : upserts[k] = BatchOf(rows, batch_size, k)
        /\ Concat(upserts, Len(upserts)) = rows
        /\ WritesOf(1, writes, Len(writes)) = upserts

\* five rows went out in batches of two, two and one
C11_Witness_LastBatchShort ==
    /\ pc = "done"
    /\ Len(rows) = 5
    /\ Len(upserts) = 3
    /\ Len(upserts[3]) = 1

\* the statements of a run that the table answered with an error
Refused(run) == {n \in 1..Len(calls) : calls[n].run = run /\ calls[n].error}

\* the statements a run has sent to the table
SentBy(run) == {n \in 1..Len(calls) : calls[n].run = run}

\* C12: when the table answers batch k of a run with an error, upsert_batches
\* ends at once with the client's exception: the calls made are batches 1..k
\* in order, each once, the refused statement is the run's last, the table
\* applied batches 1..k-1 of this run and not batch k, and no call follows.
C12_StoreErrorAborts ==
    /\ [](Refused(1) # {} <=> error.type = "APIError")
    /\ [](Refused(1) # {} =>
            /\ pc = "fatal"
            /\ Cardinality(Refused(1)) = 1
            /\ \A n \in Refused(1) : \A m \in SentBy(1) : m <= n
            /\ Len(upserts) = Cardinality(SentBy(1))
            /\ \A k \in 1..Len(upserts) : upserts[k] = BatchOf(rows, batch_size, k)
            /\ WritesOf(1, writes, Len(writes))
                 = SubSeq(upserts, 1, Len(upserts) - 1))
    /\ [][(Refused(1) = {} /\ Refused(1)' # {}) =>
            /\ store' = store
            /\ writes' = writes
            /\ Len(upserts') = Len(upserts) + 1]_vars
    /\ [][(Refused(1) # {}) =>
            /\ upserts' = upserts
            /\ SentBy(1)' = SentBy(1)
            /\ WritesOf(1, writes', Len(writes')) = WritesOf(1, writes, Len(writes))]_vars

\* the table refused the second of three batches
C12_Witness_SecondBatchRefused ==
    /\ pc = "fatal"
    /\ error.type = "APIError"
    /\ Len(rows) = 5
    /\ Len(upserts) = 2
    /\ Len(upserts[2]) = 2
    /\ Cardinality(SentBy(1)) = 2
    /\ Refused(1) # {}
    /\ WritesOf(1, writes, Len(writes)) = <<upserts[1]>>

\* the composite key of a stored row
CompositeKey(r) == <<r.nm_id, r.barcode, r.tech_size, r.warehouse_name>>

\* a table reconciled with a list: for every key of the list its last row,
\* and the table's rows of the other keys
Reconciled(table, list) ==
    {r \in table : \A k \in 1..Len(list) : CompositeKey(list[k]) # CompositeKey(r)}
      \cup {list[k] : k \in {n \in 1..Len(list) :
                \A m \in (n + 1)..Len(list) :
                    CompositeKey(list[m]) # CompositeKey(list[n])}}

\* the table applied every chunk of run 1 before any chunk of run 2
OneAfterTheOther ==
    \A m, n \in 1..Len(writes) :
        (writes[m].run = 2 /\ writes[n].run = 1) => n < m

\* the table had no fault while it served a run
Served(run) == \A n \in SentBy(run) : ~calls[n].fault

\* C13: from any table, upsert_batches of a list leaves the table reconciled
\* with the list, and upsert_batches of the identical list once more leaves
\* it exactly so (the same rows, hence the same count and the same row per
\* key); the table answers no statement of the repeat with an error unless
\* it has a fault of its own, so the repeat of a served list raises nothing
\* and runs to its end.
C13_RepeatChangesNothing ==
    /\ (pc = "done" /\ SentBy(2) = {}) => store = Reconciled(store0, rows)
    /\ (pc = "done" /\ other_pc = "done" /\ other_rows = rows) =>
          /\ store = Reconciled(store0, rows)
          /\ Cardinality(store) = Cardinality(Reconciled(store0, rows))
          /\ other_error = NoError
    /\ (pc = "done" /\ other_pc # "absent" /\ other_rows = rows /\ Served(2)) =>
          /\ Refused(2) = {}
          /\ other_error = NoError
          /\ other_pc \in {"upsert", "done"}
          /\ Cardinality(SentBy(2)) = CeilDiv(Min(other_i, Len(rows)), batch_size)

\* three rows went to a table that held one of their keys, and then again
C13_Witness_SameListTwice ==
    /\ pc = "done"
    /\ other_pc = "done"
    /\ other_rows = rows
    /\ Len(rows) = 3
    /\ store0 # {}
    /\ OneAfterTheOther
    /\ Len(writes) = 2 * Len(upserts)
    /\ Cardinality(SentBy(2)) = Len(upserts)
    /\ Served(2)
    /\ Cardinality(store) = 3

\* the largest of a non-empty set of numbers
Max(S) == CHOOSE x \in S : \A y \in S : y <= x

\* the positions of a chunk that carry a key
PositionsOf(key, chunk) == {k \in 1..Len(chunk) : CompositeKey(chunk[k]) = key}

\* the row that the latest write of a key carried
LastWritten(key) ==
    LET m == Max({n \in 1..Len(writes) : PositionsOf(key, writes[n].chunk) # {}})
    IN  writes[m].chunk[Max(PositionsOf(key, writes[m].chunk))]

\* every key some applied chunk carried
KeysWritten ==
    UNION {{CompositeKey(writes[n].chunk[k]) : k \in 1..Len(writes[n].chunk)} :
              n \in 1..Len(writes)}

\* C14: while two runs interleave their batches on one table, every stored
\* row is, in all its columns, one row of the list of one run (or a row the
\* table held before), never a mix, the table holds one row per key, and each
\* key that was written holds the row of the write that came last, at every
\* moment and so after both runs have finished.
C14_RowsWholeLastWriteWins ==
    /\ \A r \in store :
          \/ \E k \in 1..Len(rows) : r = rows[k]
          \/ \E k \in 1..Len(other_rows) : r = other_rows[k]
          \/ r \in store0
    /\ \A r1, r2 \in store : CompositeKey(r1) = CompositeKey(r2) => r1 = r2
    /\ \A key \in KeysWritten :
          \E r \in store : CompositeKey(r) = key /\ r = LastWritten(key)

\* both runs wrote the same key with different rows, their batches
\* interleaved, and both have finished
C14_Witness_InterleavedRuns ==
    /\ pc = "done"
    /\ other_pc = "done"
    /\ Len(writes) >= 4
    /\ ~OneAfterTheOther
    /\ writes[Len(writes)].run = 1
    /\ \E k \in 1..Len(rows), n \in 1..Len(other_rows) :
          /\ CompositeKey(rows[k]) = CompositeKey(other_rows[n])
          /\ rows[k] # other_rows[n]
          /\ rows[k] \in store

-----------------------------------------------------------------------------
(* the claims about a failed request and about the order of the stages *)

\* the network failed the request: no response, or an error status (4xx, 5xx)
RequestFailed(o) == o.kind = "transport" \/ o.status_code \in 400..599

\* the exceptions http_request lets out for a failed request
REQUEST_ERRORS == {"HTTPError", "ConnectionError"}

\* C15: when the request of a status poll or of the download fails (its one
\* attempt used up), the run ends fatally with the request's exception: the
\* poll is not counted as pending and sets no status, no report is taken,
\* and no poll, download, flatten or upsert follows.
C15_FailedRequestIsFatal ==
    /\ [][((polls' = polls + 1 \/ downloads' = downloads + 1)
              /\ RequestFailed(reply')) =>
            /\ pc' = "fatal"
            /\ error'.type \in REQUEST_ERRORS
            /\ pending_seen' = pending_seen
            /\ status' = status
            /\ sleeps' = sleeps
            /\ report_rows' = report_rows]_vars
    /\ [](error.type \in REQUEST_ERRORS =>
            /\ pc = "fatal"
            /\ RequestFailed(reply)
            /\ flattens = 0
            /\ upserts = <<>>
            /\ writes = <<>>
            /\ store = {})
    /\ [][(error.type \in REQUEST_ERRORS) =>
            /\ polls' = polls
            /\ downloads' = downloads
            /\ upserts' = upserts]_vars

\* two polls saw the report pending, the third got HTTP 500
C15_Witness_PollRequestFailed ==
    /\ pc = "fatal"
    /\ error.type = "HTTPError"
    /\ reply.status_code = 500
    /\ polls = 3
    /\ pending_seen = 2
    /\ downloads = 0

-----------------------------------------------------------------------------
(* http_request with a retry budget, lines 74-110 *)

\* the largest retries argument tried
MaxRetries == 3

\* what the network does with one attempt
AttemptOutcomes ==
    {TransportFailure, Response(200, NoBody), Response(400, NoBody),
     Response(404, NoBody), Response(429, NoBody), Response(500, NoBody),
     Response(503, NoBody), Response(600, NoBody)}

\* a caller is about to call http_request
InitHttp ==
    /\ pc = "request"
    /\ clock = 0
    /\ strategy = 1
    /\ requests = <<>>
    /\ reply = TransportFailure
    /\ create_log = <<>>
    /\ task_id = None
    /\ urls = {}
    /\ started = 0
    /\ status = None
    /\ elapsed = 0
    /\ polls = 0
    /\ sleeps = 0
    /\ pending_seen = 0
    /\ downloads = 0
    /\ report_rows = <<>>
    /\ rows = <<>>
    /\ flat_log = <<>>
    /\ flattens = 0
    /\ batch_size = 1
    /\ i = 0
    /\ upserts = <<>>
    /\ store = {}
    /\ error = NoError
    /\ store0 = {}
    /\ writes = <<>>
    /\ calls = <<>>
    /\ other_pc = "absent"
    /\ other_rows = <<>>
    /\ other_i = 0
    /\ other_error = NoError
    /\ http_retries \in 0..MaxRetries
    /\ http_outs \in [1..MaxRetries -> AttemptOutcomes]
    /\ http_result = NoResult
    /\ http_attempt = 1
    /\ http_printed = 0
    /\ half_sec = 0

\* one pass of the loop of http_request, lines 87-106, at attempt number
\* http_attempt: the request, the printed line for an error status, and then
\* the return, the exception, or the way to the sleep of line 107; with no
\* pass left, lines 108-110
HttpAttempt ==
    /\ pc = "request"
    /\ LET made == http_attempt <= http_retries
           o    == http_outs[http_attempt]
       IN  /\ reply' = IF made THEN o ELSE reply
           /\ http_printed' =
                 IF made /\ o.kind = "response" /\ prints_status(o.status_code)
                 THEN http_printed + 1 ELSE http_printed
           /\ IF made /\ o.kind = "response"
                   /\ raises_for_status(o.status_code)
                   /\ http_attempt < http_retries
              THEN /\ pc' = "retry_sleep"
                   /\ UNCHANGED http_result
              ELSE /\ pc' = "returned"
                   /\ http_result' = http_attempts(http_retries, http_outs,
                                                   http_attempt, http_attempt > 1)
    /\ UNCHANGED <<clock, strategy, requests, create_log, task_id, urls, started,
                   status, elapsed, polls, sleeps, pending_seen, downloads,
                   report_rows, rows, flat_log, flattens, batch_size, i,
                   upserts, store, error, store0, writes, calls, http_retries,
                   http_outs, http_attempt, half_sec>>
    /\ UNCHANGED other_vars

\* line 107: time.sleep(1.5), then the next pass of the loop
HttpSleep ==
    /\ pc = "retry_sleep"
    /\ LET now == 2 * clock + half_sec + RETRY_SLEEP_HALF_SEC
       IN  /\ clock' = now \div 2
           /\ half_sec' = now % 2
    /\ http_attempt' = http_attempt + 1
    /\ pc' = "request"
    /\ UNCHANGED <<strategy, requests, reply, create_log, task_id, urls, started,
                   status, elapsed, polls, sleeps, pending_seen, downloads,
                   report_rows, rows, flat_log, flattens, batch_size, i,
                   upserts, store, error, store0, writes, calls, http_retries,
                   http_outs, http_result, http_printed>>
    /\ UNCHANGED other_vars

NextHttp ==
    \/ HttpAttempt
    \/ HttpSleep

SpecHttp == InitHttp /\ [][NextHttp]_vars

\* a failure that is worth another attempt: no response, HTTP 429, HTTP 5xx
Transient(o) ==
    \/ o.kind = "transport"
    \/ o.status_code = 429
    \/ o.status_code \in 500..599

\* the number of attempts when only transient failures are tried again,
\* counted from attempt k on
RECURSIVE AttemptsIfTransientRetried(_, _, _)
AttemptsIfTransientRetried(retries, outs, k) ==
    IF RequestFailed(outs[k]) /\ Transient(outs[k]) /\ k < retries
    THEN AttemptsIfTransientRetried(retries, outs, k + 1)
    ELSE k

\* C16: with a retry budget R >= 1, http_request makes another attempt
\* exactly when the failed attempt was HTTP 429, HTTP 5xx or a transport
\* exception and attempts remain; any other 4xx ends the call after that
\* attempt.
C16_OnlyTransientFailuresRetried ==
    (pc = "returned" /\ http_retries >= 1) =>
        http_result.attempts
            = AttemptsIfTransientRetried(http_retries, http_outs, 1)

-----------------------------------------------------------------------------
(* the claim about flatten_rows at two clock readings *)

\* when flatten_rows is invoked once more
LaterClocks == {0, 1, POLL_TIMEOUT_SEC}

\* a row without its timestamp
Unstamped(r) == [f \in DOMAIN r \ {"updated_utc"} |-> r[f]]

\* C17 as stated: flatten_rows invoked once more on the same report, at
\* whatever clock reading, returns the sequence it returned before, field
\* for field.
C17_SameOutputAtAnyClock ==
    flattens = 1 =>
        \A t \in LaterClocks : flatten_rows(report_rows, t) = rows

\* the columns every row of an item repeats from the item
ItemColumns(item) ==
    [nm_id            |-> item.nmId,
     supplier_article |-> item.vendorCode,
     barcode          |-> item.barcode,
     tech_size        |-> item.techSize,
     brand            |-> item.brand,
     subject_name     |-> item.subjectName,
     volume_l         |-> item.volume]

\* the columns every row has from the configuration
FixedColumns == [source |-> SOURCE, locale |-> REPORT_LOCALE]

\* a number of an entry, 0 when the report leaves it out
NumberOf(w, f) == IF w[f] = None THEN 0 ELSE w[f][1]

\* the entry's full quantity: as given, else the entry's three numbers added
FullOf(w) ==
    IF w.quantityFull # None THEN w.quantityFull[1]
    ELSE NumberOf(w, "quantity") + NumberOf(w, "inWayToClient")
           + NumberOf(w, "inWayFromClient")

\* the column of an entry's row that holds the number f of the entry
ColumnOf(w, f) == IF f = "quantityFull" THEN FullOf(w) ELSE NumberOf(w, f)

\* the number f added up over the entries of ws at the indices in S
RECURSIVE SumOver(_, _, _)
SumOver(ws, f, S) ==
    IF S = {} THEN 0
    ELSE LET k == CHOOSE k \in S : TRUE
         IN  ColumnOf(ws[k], f) + SumOver(ws, f, S \ {k})

\* the indices of the entries whose name, as stored, is not in transit
Summed(ws) == {k \in 1..Len(ws) : ~InTransit(ws[k])}

\* what the report fixes of the row of entry w of an item: every column but
\* the timestamp
EntryColumns(item, w) ==
    ItemColumns(item) @@ FixedColumns @@
    [warehouse_id       |-> w.warehouseId,
     warehouse_name     |-> NameOf(w),
     quantity           |-> NumberOf(w, "quantity"),
     in_way_to_client   |-> NumberOf(w, "inWayToClient"),
     in_way_from_client |-> NumberOf(w, "inWayFromClient"),
     quantity_full      |-> FullOf(w)]

\* what the report fixes of the aggregate row of an item
AggregateColumns(item) ==
    LET ws   == EntriesOf(item)
        qty  == SumOver(ws, "quantity", Summed(ws))
        to   == SumOver(ws, "inWayToClient", Summed(ws))
        from == SumOver(ws, "inWayFromClient", Summed(ws))
        full == SumOver(ws, "quantityFull", Summed(ws))
    IN  ItemColumns(item) @@ FixedColumns @@
        [warehouse_id       |-> None,
         warehouse_name     |-> AGGREGATE_NAME,
         quantity           |-> qty,
         in_way_to_client   |-> to,
         in_way_from_client |-> from,
         quantity_full      |-> IF full # 0 THEN full ELSE qty + to + from]

\* out is what an invocation on the report that read the clock at t has to
\* return: for the items in input order, the rows of the item's entries in
\* entry order and then its aggregate row, every column but the timestamp
\* fixed by the report, and the timestamp of every row the reading t
FixedByReportAndReading(out, report, t) ==
    /\ Len(out) = RowsBefore(report, Len(report) + 1)
    /\ \A a \in 1..Len(report) :
          LET ws == EntriesOf(report[a])
          IN  /\ \A k \in 1..Len(ws) :
                    Unstamped(out[RowsBefore(report, a) + k])
                        = EntryColumns(report[a], ws[k])
              /\ Unstamped(out[RowsBefore(report, a) + Len(ws) + 1])
                    = AggregateColumns(report[a])
    /\ \A k \in 1..Len(out) : out[k].updated_utc = t

\* C17: what flatten_rows returns is fixed by its input and by the one clock
\* reading it takes: the rows of the items in input order, within an item
\* the rows of its entries in entry order and then the aggregate row, every
\* column but updated_utc a function of the input alone and updated_utc of
\* every row the reading.  So an invocation at another reading on the same
\* input returns the same number of rows in the same order with the same
\* values in every column but updated_utc, and it returns the identical
\* sequence exactly when the reading is the same or there is no row.
C17_SameOutputButTimestamp ==
    flattens = 1 =>
        /\ FixedByReportAndReading(rows, report_rows, clock)
        /\ \A t \in LaterClocks :
              LET again == flatten_rows(report_rows, t)
              IN  /\ FixedByReportAndReading(again, report_rows, t)
                  /\ (again = rows) <=> (t = clock \/ Len(rows) = 0)

\* a report of two items was flattened to four rows, and flattening it at a
\* later second gives other rows
C17_Witness_LaterInvocationDiffers ==
    /\ flattens = 1
    /\ Len(report_rows) = 2
    /\ Len(rows) = 4
    /\ clock # POLL_TIMEOUT_SEC
    /\ rows[2].updated_utc = clock
    /\ flatten_rows(report_rows, POLL_TIMEOUT_SEC) # rows
    /\ rows[1].nm_id = report_rows[1].nmId
    /\ rows[3].nm_id = report_rows[2].nmId
    /\ report_rows[1].nmId # report_rows[2].nmId

\* the place of a position of main in the order of its stages
StageRank(p) ==
    CASE p = "create"   -> 1
      [] p = "poll"     -> 2
      [] p = "sleep"    -> 2
      [] p = "download" -> 3
      [] p = "flatten"  -> 4
      [] p = "upsert"   -> 5
      [] OTHER          -> 6

\* the URLs of one endpoint requested so far
UrlsOf(endpoint) == {u \in urls : u.endpoint = endpoint}

\* C18: a run of main goes through create, poll, download, flatten, upsert
\* in this order and never back; a poll needs a task id and asks for the
\* status of that task, the one the accepted creation reply named; the
\* download needs a poll of that task that observed "done" and asks for the
\* report of that task; flatten needs a download that returned a list, and
\* an upsert batch all of these; download and flatten happen at most once;
\* after a stage has failed nothing further happens.
C18_StagesInOrder ==
    /\ [][StageRank(pc') >= StageRank(pc)]_vars
    /\ [][(pc = "create" /\ pc' # "create" /\ pc' # "fatal") =>
            /\ YieldsTaskId(reply')
            /\ task_id' = reply'.body.taskId]_vars
    /\ [][task_id # None => task_id' = task_id]_vars
    /\ [](polls > 0 => task_id # None)
    /\ [](task_id = None => urls = {})
    /\ [](task_id # None =>
            /\ \A u \in urls : u.task = task_id[1]
            /\ (polls > 0 <=> UrlsOf("status") # {})
            /\ (downloads > 0 <=> UrlsOf("download") # {}))
    /\ [](downloads > 0 => polls > 0 /\ status = Some("done") /\ downloads = 1)
    /\ [](flattens > 0 => downloads = 1 /\ IsList(reply) /\ flattens = 1)
    /\ [](upserts # <<>> =>
            /\ task_id # None
            /\ status = Some("done")
            /\ IsList(reply)
            /\ flattens = 1
            /\ urls = {[endpoint |-> "status", task |-> task_id[1]],
                       [endpoint |-> "download", task |-> task_id[1]]})
    /\ [](pc \in {"download", "flatten", "upsert", "done"} =>
            task_id # None /\ status = Some("done"))
    /\ [](pc \in {"flatten", "upsert", "done"} => IsList(reply))
    /\ [][(error # NoError) =>
            /\ pc = "fatal"
            /\ UNCHANGED <<polls, downloads, flattens, upserts, store, urls>>]_vars

\* a run that created a task at the third attempt, saw it pending, then
\* done, downloaded a list and sent a batch
C18_Witness_AllStagesRan ==
    /\ pc = "done"
    /\ strategy = 3
    /\ task_id = Some("t2")
    /\ urls = {[endpoint |-> "status", task |-> "t2"],
               [endpoint |-> "download", task |-> "t2"]}
    /\ pending_seen >= 1
    /\ downloads = 1
    /\ flattens = 1
    /\ Len(upserts) >= 1

-----------------------------------------------------------------------------
(* the claim about the keys of the rows of flatten_rows *)

\* no two items of the report share (item id, barcode, size), and no two
\* entries of one item share a warehouse name
DistinctUpstream(report) ==
    /\ \A a, b \in 1..Len(report) :
          a # b => <<report[a].nmId, report[a].barcode, report[a].techSize>>
                     # <<report[b].nmId, report[b].barcode, report[b].techSize>>
    /\ \A a \in 1..Len(report) :
          \A j, k \in 1..Len(EntriesOf(report[a])) :
              j # k => EntriesOf(report[a])[j].warehouseName
                         # EntriesOf(report[a])[k].warehouseName

\* C19: for a report of pairwise distinct items with pairwise distinct
\* warehouse names in each, no two rows of flatten_rows have the same
\* (nm_id, barcode, tech_size, warehouse_name), and the rows of one item
\* hold at most one with the aggregate label, also when the item lists an
\* entry with that label.
C19_NoTwoRowsWithOneKey ==
    (flattens = 1 /\ DistinctUpstream(report_rows)) =>
        /\ \A m, n \in 1..Len(rows) :
              m # n => CompositeKey(rows[m]) # CompositeKey(rows[n])
        /\ \A a \in 1..Len(report_rows) :
              Cardinality({k \in 1..(Len(EntriesOf(report_rows[a])) + 1) :
                  rows[RowsBefore(report_rows, a) + k].warehouse_name
                      = AGGREGATE_NAME}) <= 1

-----------------------------------------------------------------------------
(* termination *)

\* main() is one sequential process: while every request and every store
\* call returns or raises in finite time and time.sleep returns, the step
\* that is enabled is eventually taken
SpecLive == Init /\ [][Next]_vars /\ WF_vars(Next)

\* the most polls a wait can make: a poll is followed by another only after
\* a sleep of POLL_INTERVAL_SEC and only while no more than POLL_TIMEOUT_SEC
\* have passed since the first
MostPolls == POLL_TIMEOUT_SEC \div POLL_INTERVAL_SEC + 2

\* C20: every run ends, completed or fatal, and wait_report_ready does not
\* poll forever: it goes on to sleep and poll again only while no more than
\* the timeout budget has passed since its first poll, so its polls are
\* bounded.
C20_RunTerminates ==
    /\ <>(pc \in {"done", "fatal"})
    /\ [](pc = "sleep" => elapsed <= POLL_TIMEOUT_SEC)
    /\ [](polls <= MostPolls)

\* a wait that saw the report pending at every poll ended by the timeout,
\* after the most polls possible
C20_Witness_WaitTimedOut ==
    /\ pc = "fatal"
    /\ error.type = "TimeoutError"
    /\ polls = MostPolls
    /\ pending_seen = polls

=============================================================================
